---- MODULE Spec2Model ----
\* Limit order book with a price-time priority matching engine
\* (PriceLevel, OrderBook, MatchingEngine).
\*
\* Orders live in the engine's storage_ vector, one per id, in id order;
\* levels and the index hold Order* pointers into it.  A pointer is modelled
\* as the id of the order it points to, and storage_ as the map from an id to
\* the Order object stored for it.  No method ever follows a pointer to an
\* order that has left the book (every Order* comes from index_, from a
\* level's deque, or is the taker just created), so the objects of orders no
\* longer in the book are dropped from storage_ at the end of each call.
\* The fields originalQty and timestamp of Order are written by the
\* constructor and read by no method; they are not part of the state.
EXTENDS Integers, Sequences, FiniteSets, TLC

\* ---------------------------------------------------------------- bounds
\* MaxOrders caps the ids the engine hands out; a call takes a price in
\* 1..MaxPrice and a quantity that is zero, one or MaxQty.
MaxOrders == 3
MaxPrice == 2
MaxQty == 2
\* the deepest book view asked for
MaxDepth == 2

Sides == {"Buy", "Sell"}
Prices == 1..MaxPrice
Quantities == {0, 1, MaxQty}
OrderIds == 1..MaxOrders

VARIABLES storage_, bids_, asks_, index_, nextOrderId_, trades, lastCall

vars == <<storage_, bids_, asks_, index_, nextOrderId_, trades, lastCall>>

\* ---------------------------------------------------------------- helpers
MinOf(S) == CHOOSE x \in S : \A y \in S : x <= y
MaxOf(S) == CHOOSE x \in S : \A y \in S : x >= y
\* mutation: the first argument, whatever the second
Min_first(a, b) == a

\* mutation: never more than one unit
Min_one(a, b) == IF a <= 0 \/ b <= 0 THEN 0 ELSE 1

Min(a, b) == IF a <= b THEN a ELSE b

\* std::map::erase(key)
MapErase(m, k) == [q \in DOMAIN m \ {k} |-> m[q]]
\* std::map::emplace(key, value): inserts only when the key is absent
MapEmplace(m, k, v) == IF k \in DOMAIN m THEN m ELSE (k :> v) @@ m
\* operator[] assignment on the unordered_map
MapSet(m, k, v) == [q \in DOMAIN m \cup {k} |-> IF q = k THEN v ELSE m[q]]

EmptyMap == [q \in {} |-> 0]

\* ---------------------------------------------------------------- Types
Order(id, side, price, qty) ==
    [id |-> id, side |-> side, price |-> price, quantity |-> qty]

\* mutation: the two ids are stored the wrong way round
Trade_swapped(maker, taker, p, q) ==
    [makerOrderId |-> taker, takerOrderId |-> maker, price |-> p, quantity |-> q]

Trade(maker, taker, p, q) ==
    [makerOrderId |-> maker, takerOrderId |-> taker, price |-> p, quantity |-> q]

\* ---------------------------------------------------------------- PriceLevel
PriceLevel(p) == [price |-> p, orders_ |-> <<>>, totalQty_ |-> 0]

\* mutation: the order is pushed at the front of the deque
PriceLevel_addOrder_front(level, order) ==
    [level EXCEPT !.orders_ = <<order.id>> \o @,
                  !.totalQty_ = @ + order.quantity]

PriceLevel_addOrder(level, order) ==
    [level EXCEPT !.orders_ = Append(@, order.id),
                  !.totalQty_ = @ + order.quantity]

\* first position of id in the deque, 0 when absent
PositionOf(q, id) ==
    IF \E i \in 1..Len(q) : q[i] = id
    THEN MinOf({i \in 1..Len(q) : q[i] = id})
    ELSE 0

RemoveAt(q, i) == SubSeq(q, 1, i - 1) \o SubSeq(q, i + 1, Len(q))

\* mutation: the front order is removed, whatever the id asked for
PriceLevel_removeOrder_front(level, id, storage) ==
    IF level.orders_ = <<>> THEN level
    ELSE [level EXCEPT !.totalQty_ = @ - storage[Head(level.orders_)].quantity,
                       !.orders_ = Tail(@)]

PriceLevel_removeOrder(level, id, storage) ==
    LET i == PositionOf(level.orders_, id)
    IN  IF i = 0 THEN level
        ELSE [level EXCEPT !.totalQty_ = @ - storage[level.orders_[i]].quantity,
                           !.orders_ = RemoveAt(@, i)]

PriceLevel_empty(level) == level.orders_ = <<>>

\* nullptr is 0
PriceLevel_getFront(level) ==
    IF PriceLevel_empty(level) THEN 0 ELSE Head(level.orders_)

PriceLevel_popFront(level, storage) ==
    IF ~PriceLevel_empty(level)
    THEN [level EXCEPT !.totalQty_ = @ - storage[Head(level.orders_)].quantity,
                       !.orders_ = Tail(@)]
    ELSE level

\* mutation: the cached total is left as it was
PriceLevel_adjustTotal_noop(level, delta) == level

PriceLevel_adjustTotal(level, delta) == [level EXCEPT !.totalQty_ = @ - delta]

PriceLevel_totalQuantity(level) == level.totalQty_

PriceLevel_orderCount(level) == Len(level.orders_)

\* ---------------------------------------------------------------- OrderBook
\* A book is [bids_, asks_, index_]; bids_ and asks_ map a price to its level,
\* index_ maps an order id to its Order*.
EmptyBook == [bids_ |-> EmptyMap, asks_ |-> EmptyMap, index_ |-> EmptyMap]

OrderBook_addOrder(book, order) ==
    LET p == order.price
    IN  IF order.side = "Buy"
        THEN LET m == MapEmplace(book.bids_, p, PriceLevel(p))
             IN  [book EXCEPT !.bids_ = [m EXCEPT ![p] = PriceLevel_addOrder(@, order)],
                              !.index_ = MapSet(@, order.id, order.id)]
        ELSE LET m == MapEmplace(book.asks_, p, PriceLevel(p))
             IN  [book EXCEPT !.asks_ = [m EXCEPT ![p] = PriceLevel_addOrder(@, order)],
                              !.index_ = MapSet(@, order.id, order.id)]

\* mutation: the level is kept when its last order is removed
CancelInSide_keepEmpty(m, p, id, storage) ==
    IF p \in DOMAIN m
    THEN [m EXCEPT ![p] = PriceLevel_removeOrder(@, id, storage)]
    ELSE m

\* the side map after removing id from its level and erasing the level if empty
CancelInSide(m, p, id, storage) ==
    IF p \in DOMAIN m
    THEN LET lvl == PriceLevel_removeOrder(m[p], id, storage)
         IN  IF PriceLevel_empty(lvl) THEN MapErase(m, p) ELSE [m EXCEPT ![p] = lvl]
    ELSE m

OrderBook_cancelOrder(book, id, storage) ==
    IF id \notin DOMAIN book.index_ THEN [book |-> book, ret |-> FALSE]
    ELSE LET order == storage[book.index_[id]]
             p == order.price
             b1 == IF order.side = "Buy"
                   THEN [book EXCEPT !.bids_ = CancelInSide(@, p, id, storage)]
                   ELSE [book EXCEPT !.asks_ = CancelInSide(@, p, id, storage)]
         IN  [book |-> [b1 EXCEPT !.index_ = MapErase(@, id)], ret |-> TRUE]

AdjustInSide(m, p, delta) ==
    IF p \in DOMAIN m THEN [m EXCEPT ![p] = PriceLevel_adjustTotal(@, delta)] ELSE m

\* mutation: the reduced order is taken out of its queue and put at the back
OrderBook_modifyQuantity_requeue(book, storage, id, newQty) ==
    IF id \notin DOMAIN book.index_
    THEN [book |-> book, storage |-> storage, ret |-> FALSE]
    ELSE LET order == storage[book.index_[id]]
             p == order.price
             Requeue(m) ==
                 [m EXCEPT ![p] = [PriceLevel_adjustTotal(@, order.quantity - newQty)
                     EXCEPT !.orders_ = Append(SelectSeq(@, LAMBDA x : x # id), id)]]
         IN  IF newQty >= order.quantity
             THEN [book |-> book, storage |-> storage, ret |-> FALSE]
             ELSE [book |-> IF order.side = "Buy"
                            THEN [book EXCEPT !.bids_ = Requeue(@)]
                            ELSE [book EXCEPT !.asks_ = Requeue(@)],
                   storage |-> [storage EXCEPT ![book.index_[id]].quantity = newQty],
                   ret |-> TRUE]

OrderBook_modifyQuantity(book, storage, id, newQty) ==
    IF id \notin DOMAIN book.index_
    THEN [book |-> book, storage |-> storage, ret |-> FALSE]
    ELSE LET h == book.index_[id]
             order == storage[h]
         IN  IF newQty >= order.quantity
             THEN [book |-> book, storage |-> storage, ret |-> FALSE]
             ELSE LET delta == order.quantity - newQty
                      p == order.price
                  IN  [book |-> IF order.side = "Buy"
                                THEN [book EXCEPT !.bids_ = AdjustInSide(@, p, delta)]
                                ELSE [book EXCEPT !.asks_ = AdjustInSide(@, p, delta)],
                       storage |-> [storage EXCEPT ![h].quantity = newQty],
                       ret |-> TRUE]

CleanInSide(m, p) ==
    IF p \in DOMAIN m /\ PriceLevel_empty(m[p]) THEN MapErase(m, p) ELSE m

OrderBook_cleanLevel(book, side, price) ==
    IF side = "Buy"
    THEN [book EXCEPT !.bids_ = CleanInSide(@, price)]
    ELSE [book EXCEPT !.asks_ = CleanInSide(@, price)]

\* mutation: the index keeps the id
OrderBook_removeFromIndex_noop(book, id) == book

OrderBook_removeFromIndex(book, id) == [book EXCEPT !.index_ = MapErase(@, id)]

\* std::optional<Price>
Nullopt == [has_value |-> FALSE, value |-> 0]
Some(v) == [has_value |-> TRUE, value |-> v]

\* bids_ is ordered by std::greater, asks_ by std::less: begin() is the
\* highest bid price and the lowest ask price
BidsBegin(bids) == MaxOf(DOMAIN bids)

\* mutation: the walk starts at the highest ask
AsksBegin_highest(asks) == MaxOf(DOMAIN asks)

AsksBegin(asks) == MinOf(DOMAIN asks)

OrderBook_bestBid(book) ==
    IF DOMAIN book.bids_ = {} THEN Nullopt ELSE Some(BidsBegin(book.bids_))

OrderBook_bestAsk(book) ==
    IF DOMAIN book.asks_ = {} THEN Nullopt ELSE Some(AsksBegin(book.asks_))

\* A double is modelled by the exact quotient num / den it is computed from.
CentsPerUnit == 100

Quotient(n, d) == [num |-> n, den |-> d]

\* mutation: the difference is taken the wrong way round
OrderBook_spread_reversed(book) ==
    LET bid == OrderBook_bestBid(book)
        ask == OrderBook_bestAsk(book)
    IN  IF ~bid.has_value \/ ~ask.has_value THEN Nullopt
        ELSE Some(Quotient(bid.value - ask.value, CentsPerUnit))

OrderBook_spread(book) ==
    LET bid == OrderBook_bestBid(book)
        ask == OrderBook_bestAsk(book)
    IN  IF ~bid.has_value \/ ~ask.has_value THEN Nullopt
        ELSE Some(Quotient(ask.value - bid.value, CentsPerUnit))

OrderBook_hasOrder(book, id) == id \in DOMAIN book.index_

\* nullptr is 0
OrderBook_getOrder(book, id) ==
    IF id \in DOMAIN book.index_ THEN book.index_[id] ELSE 0

\* ---------------------------------------------------------------- MatchingEngine
\* The matcher works on st = [storage_, book_, trades].
LevelOf(book, side, p) == IF side = "Buy" THEN book.bids_[p] ELSE book.asks_[p]

SetLevel(book, side, p, lvl) ==
    IF side = "Buy" THEN [book EXCEPT !.bids_[p] = lvl] ELSE [book EXCEPT !.asks_[p] = lvl]

\* mutation: the fill is recorded at the taker's limit price
TradePrice_taker(maker, taker) == taker.price

\* the price a fill is recorded at
TradePrice(maker, taker) == maker.price

\* one iteration of fillLevel's loop body, on the level of `mside` at price p
FillOne(st, taker, mside, p) ==
    LET level == LevelOf(st.book_, mside, p)
        maker == PriceLevel_getFront(level)
        fillQty == Min(st.storage_[taker].quantity, st.storage_[maker].quantity)
        tr == Trade(st.storage_[maker].id, st.storage_[taker].id,
                    TradePrice(st.storage_[maker], st.storage_[taker]), fillQty)
        sto == [st.storage_ EXCEPT ![taker].quantity = @ - fillQty,
                                   ![maker].quantity = @ - fillQty]
        lvl1 == PriceLevel_adjustTotal(level, fillQty)
        done == sto[maker].quantity = 0
        bk1 == IF done THEN OrderBook_removeFromIndex(st.book_, sto[maker].id)
               ELSE st.book_
        lvl2 == IF done THEN PriceLevel_popFront(lvl1, sto) ELSE lvl1
    IN  [storage_ |-> sto,
         book_ |-> SetLevel(bk1, mside, p, lvl2),
         trades |-> Append(st.trades, tr)]

RECURSIVE fillLevel(_, _, _, _)
fillLevel(st, taker, mside, p) ==
    IF st.storage_[taker].quantity > 0 /\ ~PriceLevel_empty(LevelOf(st.book_, mside, p))
    THEN fillLevel(FillOne(st, taker, mside, p), taker, mside, p)
    ELSE st

\* mutation: a level at exactly the taker's price does not cross
Crosses_strict(side, takerPrice, p) ==
    IF side = "Buy" THEN p < takerPrice ELSE p > takerPrice

\* the crossing test of match(): TRUE when the walk goes on at level price p
Crosses(side, takerPrice, p) ==
    IF side = "Buy" THEN ~(p > takerPrice) ELSE ~(p < takerPrice)

\* one iteration of match()'s loop body at the best opposite level p, once
\* the crossing test has let it through
WalkOne(st, taker, mside, p) ==
    LET st1 == fillLevel(st, taker, mside, p)
    IN  IF PriceLevel_empty(LevelOf(st1.book_, mside, p))
        THEN [st1 EXCEPT !.book_ = OrderBook_cleanLevel(@, mside, p)]
        ELSE st1

RECURSIVE match(_, _)
match(st, taker) ==
    LET t == st.storage_[taker]
    IN  IF t.side = "Buy"
        THEN IF t.quantity > 0 /\ DOMAIN st.book_.asks_ # {}
             THEN LET p == AsksBegin(st.book_.asks_)
                  IN  IF ~Crosses("Buy", t.price, p) THEN st
                      ELSE match(WalkOne(st, taker, "Sell", p), taker)
             ELSE st
        ELSE IF t.quantity > 0 /\ DOMAIN st.book_.bids_ # {}
             THEN LET p == BidsBegin(st.book_.bids_)
                  IN  IF ~Crosses("Sell", t.price, p) THEN st
                      ELSE match(WalkOne(st, taker, "Buy", p), taker)
             ELSE st

\* An engine is e = [storage_, book_, nextOrderId_]; the operations return
\* the engine after the call with the value returned (or the exception thrown).
\* mutation: the id counter is not advanced
submitOrder_sameId(e, side, price, qty) ==
    LET id == e.nextOrderId_
        sto == MapSet(e.storage_, id, Order(id, side, price, qty))
        st == match([storage_ |-> sto, book_ |-> e.book_, trades |-> <<>>], id)
        bk == IF st.storage_[id].quantity > 0
              THEN OrderBook_addOrder(st.book_, st.storage_[id])
              ELSE st.book_
    IN  [e |-> [storage_ |-> st.storage_, book_ |-> bk, nextOrderId_ |-> id],
         trades |-> st.trades, err |-> "none"]

\* the new order in storage_ and the empty trade list: what match() starts from
NewTaker(e, side, price, qty) ==
    [storage_ |-> MapSet(e.storage_, e.nextOrderId_,
                         Order(e.nextOrderId_, side, price, qty)),
     book_ |-> e.book_, trades |-> <<>>]

submitOrder(e, side, price, qty) ==
    LET id == e.nextOrderId_
        st == match(NewTaker(e, side, price, qty), id)
        bk == IF st.storage_[id].quantity > 0
              THEN OrderBook_addOrder(st.book_, st.storage_[id])
              ELSE st.book_
    IN  [e |-> [storage_ |-> st.storage_, book_ |-> bk, nextOrderId_ |-> id + 1],
         trades |-> st.trades, err |-> "none"]

\* mutation: the bool of the book's cancelOrder is dropped, true is returned
cancelOrder_true(e, id) ==
    LET r == OrderBook_cancelOrder(e.book_, id, e.storage_)
    IN  [e |-> [e EXCEPT !.book_ = r.book], ret |-> TRUE]

cancelOrder(e, id) ==
    LET r == OrderBook_cancelOrder(e.book_, id, e.storage_)
    IN  [e |-> [e EXCEPT !.book_ = r.book], ret |-> r.ret]

\* mutation: a reprice submits the new order and forgets to cancel the old one
modifyOrder_keepOld(e, id, newPrice, newQty) ==
    LET h == OrderBook_getOrder(e.book_, id)
    IN  IF h = 0 THEN [e |-> e, trades |-> <<>>, err |-> "Order not found"]
        ELSE LET order == e.storage_[h]
             IN  IF newPrice = order.price
                 THEN IF newQty >= order.quantity
                      THEN [e |-> e, trades |-> <<>>,
                            err |-> "Modify can only redice qty at same price"]
                      ELSE LET r == OrderBook_modifyQuantity(e.book_, e.storage_, id, newQty)
                           IN  [e |-> [e EXCEPT !.book_ = r.book, !.storage_ = r.storage],
                                trades |-> <<>>, err |-> "none"]
                 ELSE submitOrder(e, order.side, newPrice, newQty)

\* mutation: an unknown id is answered with an empty trade list, no exception
NotFound_silent(e) == [e |-> e, trades |-> <<>>, err |-> "none"]

\* throw std::runtime_error("Order not found: " + id): the engine is as it was
NotFound(e) == [e |-> e, trades |-> <<>>, err |-> "Order not found"]

\* mutation: only a quantity above the current one is refused
ReduceRefused_strict(newQty, quantity) == newQty > quantity

\* the test of the same-price branch before its throw
ReduceRefused(newQty, quantity) == newQty >= quantity

modifyOrder(e, id, newPrice, newQty) ==
    LET h == OrderBook_getOrder(e.book_, id)
    IN  IF h = 0 THEN NotFound(e)
        ELSE LET order == e.storage_[h]
             IN  IF newPrice = order.price
                 THEN IF ReduceRefused(newQty, order.quantity)
                      THEN [e |-> e, trades |-> <<>>,
                            err |-> "Modify can only redice qty at same price"]
                      ELSE LET r == OrderBook_modifyQuantity(e.book_, e.storage_, id, newQty)
                           IN  [e |-> [e EXCEPT !.book_ = r.book, !.storage_ = r.storage],
                                trades |-> <<>>, err |-> "none"]
                 ELSE LET side == order.side
                          r == OrderBook_cancelOrder(e.book_, id, e.storage_)
                      IN  submitOrder([e EXCEPT !.book_ = r.book], side, newPrice, newQty)

lastOrderId(e) == e.nextOrderId_ - 1

\* ---------------------------------------------------------------- BookPrinter
toDecimal(p) == Quotient(p, CentsPerUnit)

\* the keys of a map from the highest to the lowest: the order of bids_, and
\* of asks_ walked from rbegin()
RECURSIVE Descending(_)
Descending(S) ==
    IF S = {} THEN <<>> ELSE <<MaxOf(S)>> \o Descending(S \ {MaxOf(S)})

\* the first `count` elements of a walk that stops at count < levels
FirstLevels(walk, levels) ==
    IF levels <= 0 THEN <<>>
    ELSE SubSeq(walk, 1, IF levels <= Len(walk) THEN levels ELSE Len(walk))

\* one printed row: the price in decimal and the level's total quantity
Row(m, p) == [price |-> toDecimal(p), qty |-> PriceLevel_totalQuantity(m[p])]

\* the rows printBook writes, top to bottom: the ask rows, then the bid rows
printBook(book, levels) ==
    LET askWalk == FirstLevels(Descending(DOMAIN book.asks_), levels)
        bidWalk == FirstLevels(Descending(DOMAIN book.bids_), levels)
    IN  [askLevels |-> [k \in DOMAIN askWalk |-> Row(book.asks_, askWalk[k])],
         bidLevels |-> [k \in DOMAIN bidWalk |-> Row(book.bids_, bidWalk[k])]]

\* ---------------------------------------------------------------- state machine
Engine == [storage_ |-> storage_,
           book_ |-> [bids_ |-> bids_, asks_ |-> asks_, index_ |-> index_],
           nextOrderId_ |-> nextOrderId_]

Book == Engine.book_

Install(e) ==
    /\ storage_' = [h \in DOMAIN e.book_.index_ |-> e.storage_[h]]
    /\ bids_' = e.book_.bids_
    /\ asks_' = e.book_.asks_
    /\ index_' = e.book_.index_
    /\ nextOrderId_' = e.nextOrderId_

\* lastCall records the last public call: the operation, its arguments when
\* it took effect, the value it returned (cancelOrder's bool; TRUE for a
\* submitOrder or modifyOrder that returned normally) and the exception it
\* threw.  A call that fails (cancelOrder returning false, modifyOrder
\* throwing) leaves the engine as it was whatever its arguments, and its
\* arguments are not recorded.
Call(op, id, side, price, qty) ==
    [op |-> op, id |-> id, side |-> side, price |-> price, qty |-> qty,
     ret |-> TRUE, err |-> "none"]

Failed(op, err) ==
    [op |-> op, id |-> 0, side |-> "none", price |-> 0, qty |-> 0,
     ret |-> FALSE, err |-> err]

Init ==
    /\ storage_ = EmptyMap
    /\ bids_ = EmptyMap
    /\ asks_ = EmptyMap
    /\ index_ = EmptyMap
    /\ nextOrderId_ = 1
    /\ trades = <<>>
    /\ lastCall = Failed("init", "none")

SubmitOrder(side, price, qty) ==
    /\ nextOrderId_ <= MaxOrders
    /\ LET r == submitOrder(Engine, side, price, qty)
       IN  /\ Install(r.e)
           /\ trades' = r.trades
           /\ lastCall' = Call("submit", nextOrderId_, side, price, qty)

CancelOrder(id) ==
    LET r == cancelOrder(Engine, id)
    IN  /\ Install(r.e)
        /\ trades' = <<>>
        /\ lastCall' = IF r.ret THEN Call("cancel", id, "none", 0, 0)
                       ELSE Failed("cancel", "none")

\* a price change allocates an order id, which the model caps
ModifyOrder(id, newPrice, newQty) ==
    /\ (OrderBook_hasOrder(Book, id) /\ storage_[id].price # newPrice)
          => nextOrderId_ <= MaxOrders
    /\ LET r == modifyOrder(Engine, id, newPrice, newQty)
       IN  /\ Install(r.e)
           /\ trades' = r.trades
           /\ lastCall' = IF r.err = "none"
                          THEN Call("modify", id, "none", newPrice, newQty)
                          ELSE Failed("modify", r.err)

Next ==
    \/ \E side \in Sides, price \in Prices, qty \in Quantities :
          SubmitOrder(side, price, qty)
    \/ \E id \in OrderIds : CancelOrder(id)
    \/ \E id \in OrderIds, price \in Prices, qty \in Quantities :
          ModifyOrder(id, price, qty)

Spec == Init /\ [][Next]_vars

\* ---------------------------------------------------------------- properties
OppositeSide(side) == IF side = "Buy" THEN "Sell" ELSE "Buy"

\* the ids queued in the levels of one side map
QueuedIn(m) == UNION {{m[p].orders_[i] : i \in 1..Len(m[p].orders_)} : p \in DOMAIN m}

\* the levels of the book, each with its side
AllLevels ==
    {[side |-> "Buy", level |-> bids_[p]] : p \in DOMAIN bids_}
      \cup {[side |-> "Sell", level |-> asks_[p]] : p \in DOMAIN asks_}

RECURSIVE SumQty(_, _)
SumQty(q, storage) ==
    IF q = <<>> THEN 0 ELSE storage[Head(q)].quantity + SumQty(Tail(q), storage)

RECURSIVE SumTrades(_)
SumTrades(ts) == IF ts = <<>> THEN 0 ELSE Head(ts).quantity + SumTrades(Tail(ts))

\* the makers named by a trade list
Makers(ts) == {ts[k].makerOrderId : k \in 1..Len(ts)}

\* C1: whenever both sides of the book are non-empty, the best bid is
\* strictly below the best ask.
C1_NoCross ==
    (OrderBook_bestBid(Book).has_value /\ OrderBook_bestAsk(Book).has_value)
      => OrderBook_bestBid(Book).value < OrderBook_bestAsk(Book).value

\* a call has just matched, and left orders resting on both sides
C1_Witness ==
    /\ trades # <<>>
    /\ OrderBook_bestBid(Book).has_value
    /\ OrderBook_bestAsk(Book).has_value

\* C2: every order held in a price level has remaining quantity strictly
\* greater than zero.
C2_RestingPositive ==
    \A l \in AllLevels : \A i \in 1..Len(l.level.orders_) :
        storage_[l.level.orders_[i]].quantity > 0

\* C3: every trade returned by the last call has quantity strictly greater
\* than zero.
C3_TradeQtyPositive == \A k \in 1..Len(trades) : trades[k].quantity > 0

\* C4: each level's cached total equals the sum of the remaining quantities
\* of the orders queued in it.
C4_QuantityAccounting ==
    \A l \in AllLevels :
        PriceLevel_totalQuantity(l.level) = SumQty(l.level.orders_, storage_)

\* a maker was partially filled by the last call and still rests, in a level
\* that holds another order as well
C4_Witness ==
    \E l \in AllLevels :
        /\ PriceLevel_orderCount(l.level) >= 2
        /\ PriceLevel_getFront(l.level) \in Makers(trades)

\* C5: the ids of the index are the ids queued in the levels; each is queued
\* once, in the level of its own side and price, and the index entry points
\* to that order; so hasOrder(id) holds exactly for the resting orders.
C5_IndexAgreesWithBook ==
    /\ DOMAIN index_ = QueuedIn(bids_) \cup QueuedIn(asks_)
    /\ \A id \in DOMAIN index_ :
          /\ index_[id] = id
          /\ storage_[id].id = id
          /\ LET m == IF storage_[id].side = "Buy" THEN bids_ ELSE asks_
                 o == IF storage_[id].side = "Buy" THEN asks_ ELSE bids_
             IN  /\ storage_[id].price \in DOMAIN m
                 /\ Cardinality({i \in 1..Len(m[storage_[id].price].orders_) :
                                   m[storage_[id].price].orders_[i] = id}) = 1
                 /\ \A p \in DOMAIN m \ {storage_[id].price} :
                       \A i \in 1..Len(m[p].orders_) : m[p].orders_[i] # id
                 /\ id \notin QueuedIn(o)
    /\ \A id \in OrderIds :
          OrderBook_hasOrder(Book, id) <=> id \in QueuedIn(bids_) \cup QueuedIn(asks_)

\* the last call filled a maker completely (it left the index) and filled
\* another one in part (it still rests)
C5_Witness ==
    /\ \E id \in Makers(trades) : ~OrderBook_hasOrder(Book, id)
    /\ \E id \in Makers(trades) : OrderBook_hasOrder(Book, id)

\* C6: after a call no price level present in bids or asks has an empty
\* queue, and a level whose orders have all left the book (filled by a taker
\* or cancelled) is no longer a key of its side.
C6_Step ==
    /\ \A l \in AllLevels' : ~PriceLevel_empty(l.level)
    /\ \A l \in AllLevels :
          (\A i \in 1..Len(l.level.orders_) : l.level.orders_[i] \notin DOMAIN index_')
             => l.level.price \notin DOMAIN (IF l.side = "Buy" THEN bids_' ELSE asks_')

C6_NoEmptyLevel == [][C6_Step]_vars

\* the only resting order was cancelled: its level is gone and no best
\* price is reported
C6_Witness ==
    /\ lastCall.op = "cancel" /\ lastCall.ret
    /\ index_ = EmptyMap
    /\ ~OrderBook_bestBid(Book).has_value
    /\ ~OrderBook_bestAsk(Book).has_value

\* ---------------------------------------------------------------- per-call properties
\* These relate the state before a call (unprimed) to the state after it
\* (primed); lastCall' names the call.

\* the side of the taker a call has matched: the side given to submitOrder,
\* or the side of the order a price-changing modifyOrder resubmits
TakerSide == IF lastCall'.op = "submit" THEN lastCall'.side ELSE storage_[lastCall'.id].side

\* the side map a taker of `side` is matched against, before the call
OppositeMap(side) == IF side = "Buy" THEN asks_ ELSE bids_

\* level price p is at least as good as the limit of a taker of `side`
WithinLimit(side, limit, p) == IF side = "Buy" THEN p <= limit ELSE p >= limit

\* on the side facing a taker of `side`, price p is strictly better than q
StrictlyBetter(side, p, q) == IF side = "Buy" THEN p < q ELSE p > q

RECURSIVE LevelsQty(_, _, _)
LevelsQty(ps, m, storage) ==
    IF ps = {} THEN 0
    ELSE LET p == CHOOSE x \in ps : TRUE
         IN  SumQty(m[p].orders_, storage) + LevelsQty(ps \ {p}, m, storage)

\* the quantity resting against a taker of `side` at prices within its limit
CrossingLiquidity(side, limit) ==
    LevelsQty({p \in DOMAIN OppositeMap(side) : WithinLimit(side, limit, p)},
              OppositeMap(side), storage_)

RECURSIVE TradedWith(_, _)
TradedWith(ts, maker) ==
    IF ts = <<>> THEN 0
    ELSE (IF Head(ts).makerOrderId = maker THEN Head(ts).quantity ELSE 0)
           + TradedWith(Tail(ts), maker)

Elems(q) == {q[i] : i \in 1..Len(q)}

\* C7: a submitOrder(side, price, qty) returns trades whose quantities sum to
\* the smaller of qty and the quantity resting on the opposite side at
\* crossing prices; each maker's remaining quantity drops by what its trades
\* say; the new order rests iff qty exceeds that liquidity, with qty minus
\* the traded sum remaining.
C7_Step ==
    lastCall'.op = "submit" =>
      LET side == lastCall'.side
          qty == lastCall'.qty
          id == lastCall'.id
          liq == CrossingLiquidity(side, lastCall'.price)
          after == submitOrder(Engine, side, lastCall'.price, qty).e.storage_
      IN  /\ SumTrades(trades') = (IF qty <= liq THEN qty ELSE liq)
          /\ Makers(trades') \subseteq QueuedIn(OppositeMap(side))
          /\ \A m \in QueuedIn(OppositeMap(side)) :
                /\ storage_[m].quantity - after[m].quantity = TradedWith(trades', m)
                /\ m \in DOMAIN index_' => storage_'[m].quantity = after[m].quantity
                /\ m \notin DOMAIN index_' => after[m].quantity = 0
          /\ (id \in DOMAIN index_') <=> (qty > liq)
          /\ id \in DOMAIN index_' =>
                storage_'[id].quantity = qty - SumTrades(trades')

C7_Conservation == [][C7_Step]_vars

\* a submit filled a maker, exhausted the crossing liquidity and rests with
\* the remainder
C7_Witness ==
    /\ lastCall.op = "submit"
    /\ trades # <<>>
    /\ SumTrades(trades) > 0
    /\ OrderBook_hasOrder(Book, lastCall.id)
    /\ storage_[lastCall.id].quantity = lastCall.qty - SumTrades(trades)

\* C8: the opposite side is consumed best price first: the first trade is
\* at the best opposite price, a maker is filled only after every order
\* resting at a strictly better price was filled completely, and the trade
\* prices are monotone.
C8_Step ==
    trades' # <<>> =>
      LET side == TakerSide
          opp == OppositeMap(side)
          maker(k) == trades'[k].makerOrderId
      IN  /\ \A p \in DOMAIN opp : ~StrictlyBetter(side, p, trades'[1].price)
          /\ \A i, j \in 1..Len(trades') :
                i < j => ~StrictlyBetter(side, trades'[j].price, trades'[i].price)
          /\ \A k \in 1..Len(trades') : \A o \in QueuedIn(opp) :
                StrictlyBetter(side, storage_[o].price, storage_[maker(k)].price) =>
                   /\ o \notin DOMAIN index_'
                   /\ \E i \in 1..(k - 1) : maker(i) = o
                   /\ TradedWith(SubSeq(trades', 1, k - 1), o) = storage_[o].quantity

C8_PricePriority == [][C8_Step]_vars

\* one call traded at two prices
C8_Witness ==
    /\ Len(trades) >= 2
    /\ trades[1].price # trades[Len(trades)].price
    /\ trades[1].quantity > 0

\* position of id in the queue q, 0 when it is not there
Pos(q, id) == IF id \in Elems(q) THEN CHOOSE i \in 1..Len(q) : q[i] = id ELSE 0

\* the queue of the level of `side` at price p after the call
QueueAfter(side, p) ==
    LET m == IF side = "Buy" THEN bids_' ELSE asks_'
    IN  IF p \in DOMAIN m THEN m[p].orders_ ELSE <<>>

\* the queue of the level of `side` at price p before the call
QueueBefore(side, p) ==
    LET m == IF side = "Buy" THEN bids_ ELSE asks_
    IN  IF p \in DOMAIN m THEN m[p].orders_ ELSE <<>>

\* C9: in a level, an order admitted later is filled only once every order
\* admitted before it has been filled and has left; the orders that stay
\* keep their relative order over every call; and an order that comes to
\* rest is queued behind the orders already in its level.
C9_Step ==
    /\ \A l \in AllLevels :
          LET q == l.level.orders_
              qa == QueueAfter(l.side, l.level.price)
          IN  \A i, j \in 1..Len(q) :
                i < j =>
                  /\ q[j] \in Makers(trades') =>
                        /\ q[i] \notin DOMAIN index_'
                        /\ q[i] \in Makers(trades')
                        /\ \A a, b \in 1..Len(trades') :
                              (trades'[a].makerOrderId = q[i]
                                 /\ trades'[b].makerOrderId = q[j]) => a < b
                  /\ (q[i] \in DOMAIN index_' /\ q[j] \in DOMAIN index_') =>
                        /\ Pos(qa, q[i]) > 0
                        /\ Pos(qa, q[i]) < Pos(qa, q[j])
    /\ (nextOrderId_' = nextOrderId_ + 1 /\ nextOrderId_ \in DOMAIN index_') =>
          LET o == storage_'[nextOrderId_]
          IN  QueueAfter(o.side, o.price)
                = Append(QueueBefore(o.side, o.price), nextOrderId_)

C9_TimePriority == [][C9_Step]_vars

\* a submit filled the oldest order of a level completely, and a younger
\* order of that level, untouched, is now at its front
C9_Witness ==
    /\ lastCall.op = "submit"
    /\ \E k \in 1..Len(trades) : \E l \in AllLevels :
          /\ trades[k].quantity > 0
          /\ ~OrderBook_hasOrder(Book, trades[k].makerOrderId)
          /\ l.side = OppositeSide(lastCall.side)
          /\ l.level.price = trades[k].price
          /\ PriceLevel_getFront(l.level) > trades[k].makerOrderId
          /\ PriceLevel_getFront(l.level) \notin Makers(trades)

\* C10: a trade's price is the price its maker was resting at when the call
\* matched it, whatever the taker's limit.
C10_Step ==
    \A k \in 1..Len(trades') :
       LET m == trades'[k].makerOrderId
       IN  /\ m \in DOMAIN index_
           /\ storage_[m].side = OppositeSide(TakerSide)
           /\ trades'[k].price = storage_[m].price
           /\ m \in Elems(QueueBefore(storage_[m].side, trades'[k].price))

C10_MakerPricing == [][C10_Step]_vars

\* a submit traded at a price that is not its own limit
C10_Witness ==
    /\ lastCall.op = "submit"
    /\ \E k \in 1..Len(trades) :
          trades[k].price # lastCall.price /\ trades[k].quantity > 0

\* ---------------------------------------------------------------- properties of single calls
\* These apply an operation to the engine of a reachable state and look at
\* the engine it returns.

\* the queue of the level of `side` at price p in a book
QueueIn(book, side, p) ==
    LET m == IF side = "Buy" THEN book.bids_ ELSE book.asks_
    IN  IF p \in DOMAIN m THEN m[p].orders_ ELSE <<>>

\* the queue q without the order id
Without(q, id) == SelectSeq(q, LAMBDA x : x # id)

\* the ids handed out so far that no longer rest
DeadIds == {id \in 1..lastOrderId(Engine) : ~OrderBook_hasOrder(Book, id)}

\* C11: cancelOrder of an id that is not resting returns false and leaves
\* the book, the index and the id counter as they were; an id that was just
\* cancelled is such an id.
C11_IdempotentCancel ==
    /\ \A id \in OrderIds \ DOMAIN index_ :
          LET r == cancelOrder(Engine, id)
          IN  /\ ~r.ret
              /\ r.e.book_ = Book
              /\ lastOrderId(r.e) = lastOrderId(Engine)
    /\ (lastCall.op = "cancel" /\ lastCall.ret) => lastCall.id \notin DOMAIN index_

\* a cancel returned false on a book that holds orders and has lost some
C11_Witness ==
    /\ lastCall.op = "cancel" /\ ~lastCall.ret
    /\ DOMAIN index_ # {}
    /\ DeadIds # {}

\* C12: cancelOrder of a resting id returns true and removes that order,
\* and nothing else, from its level and from the index; the other orders
\* keep their fields and their places; no trade, no new id.
C12_CancelFrame ==
    /\ \A id \in DOMAIN index_ :
          LET r == cancelOrder(Engine, id)
              b == r.e.book_
          IN  /\ r.ret
              /\ DOMAIN b.index_ = DOMAIN index_ \ {id}
              /\ \A o \in DOMAIN b.index_ :
                    b.index_[o] = index_[o] /\ r.e.storage_[o] = storage_[o]
              /\ DOMAIN b.bids_ \subseteq DOMAIN bids_
              /\ DOMAIN b.asks_ \subseteq DOMAIN asks_
              /\ \A l \in AllLevels :
                    QueueIn(b, l.side, l.level.price) = Without(l.level.orders_, id)
              /\ lastOrderId(r.e) = lastOrderId(Engine)
    /\ lastCall.op = "cancel" => trades = <<>>

\* an order was cancelled from between two others, which still rest
C12_Witness ==
    /\ lastCall.op = "cancel" /\ lastCall.ret
    /\ \E l \in AllLevels :
          /\ PriceLevel_orderCount(l.level) = 2
          /\ l.level.orders_[1] < lastCall.id
          /\ lastCall.id < l.level.orders_[2]

\* C13: modifyOrder at the order's own price with a smaller quantity returns
\* no trades, keeps the id resting with the new quantity, and leaves every
\* queue, its own included, in the order it had.
C13_ReducePreservesPriority ==
    \A id \in DOMAIN index_ : \A q \in Quantities :
        q < storage_[id].quantity =>
            LET r == modifyOrder(Engine, id, storage_[id].price, q)
                b == r.e.book_
            IN  /\ r.err = "none"
                /\ r.trades = <<>>
                /\ b.index_ = index_
                /\ r.e.storage_ = [storage_ EXCEPT ![id].quantity = q]
                /\ DOMAIN b.bids_ = DOMAIN bids_
                /\ DOMAIN b.asks_ = DOMAIN asks_
                /\ \A l \in AllLevels :
                      QueueIn(b, l.side, l.level.price) = l.level.orders_
                /\ lastOrderId(r.e) = lastOrderId(Engine)

\* an order was reduced to a positive quantity and still stands in front of
\* an order admitted after it
C13_Witness ==
    /\ lastCall.op = "modify" /\ lastCall.ret
    /\ lastCall.id \in DOMAIN index_
    /\ storage_[lastCall.id].quantity = lastCall.qty
    /\ lastCall.qty > 0
    /\ \E l \in AllLevels :
          /\ PriceLevel_orderCount(l.level) >= 2
          /\ l.level.orders_[1] = lastCall.id

\* C15: modifyOrder of an id that is not resting throws "Order not found",
\* returns no trades, allocates no id and leaves the book as it was.
C15_NotFoundUnchanged ==
    /\ \A id \in OrderIds \ DOMAIN index_ : \A p \in Prices : \A q \in Quantities :
          LET r == modifyOrder(Engine, id, p, q)
          IN  /\ r.err = "Order not found"
              /\ r.trades = <<>>
              /\ r.e.book_ = Book
              /\ lastOrderId(r.e) = lastOrderId(Engine)
    /\ (lastCall.op = "modify" /\ lastCall.err = "Order not found") => trades = <<>>

\* a modify was refused as not found on a book that holds orders and has
\* lost some
C15_Witness ==
    /\ lastCall.op = "modify" /\ lastCall.err = "Order not found"
    /\ DOMAIN index_ # {}
    /\ DeadIds # {}

\* C16: modifyOrder at the order's own price with a quantity that is not
\* smaller throws, and the order, its level, the rest of the book and the id
\* counter are as they were.
C16_InvalidModifyUnchanged ==
    /\ \A id \in DOMAIN index_ : \A q \in Quantities :
          q >= storage_[id].quantity =>
              LET r == modifyOrder(Engine, id, storage_[id].price, q)
              IN  /\ r.err = "Modify can only redice qty at same price"
                  /\ r.trades = <<>>
                  /\ r.e.book_ = Book
                  /\ r.e.storage_ = storage_
                  /\ lastOrderId(r.e) = lastOrderId(Engine)
    /\ (lastCall.op = "modify" /\ ~lastCall.ret) => trades = <<>>

\* a same-price modify was refused on a book with a level of two orders
C16_Witness ==
    /\ lastCall.op = "modify"
    /\ lastCall.err = "Modify can only redice qty at same price"
    /\ \E l \in AllLevels : PriceLevel_orderCount(l.level) >= 2

\* the last call was a modifyOrder to another price, seen from the step
Repriced ==
    /\ lastCall'.op = "modify" /\ lastCall'.ret
    /\ storage_[lastCall'.id].price # lastCall'.price

C14_Step ==
    Repriced =>
        LET id == lastCall'.id
            old == storage_[id]
            p == lastCall'.price
            q == lastCall'.qty
            new == lastOrderId(Engine')
            fresh == submitOrder(cancelOrder(Engine, id).e, old.side, p, q)
            liq == CrossingLiquidity(old.side, p)
            rem == q - SumTrades(trades')
        IN  /\ ~OrderBook_hasOrder(Book', id)
            /\ new = lastOrderId(Engine) + 1
            /\ trades' = fresh.trades
            /\ Book' = fresh.e.book_
            /\ \A k \in DOMAIN trades' :
                  /\ trades'[k].takerOrderId = new
                  /\ trades'[k].makerOrderId \in QueuedIn(OppositeMap(old.side))
            /\ SumTrades(trades') = (IF q <= liq THEN q ELSE liq)
            /\ OrderBook_hasOrder(Book', new) <=> rem > 0
            /\ rem > 0 =>
                  /\ storage_'[new] = Order(new, old.side, p, rem)
                  /\ QueueIn(Book', old.side, p) = Append(QueueIn(Book, old.side, p), new)

\* C14: modifyOrder with another price takes the old id out of the book,
\* hands out the next id, matches the new order as submitOrder would on the
\* book without the old order and returns those trades; what is left of it
\* rests under the new id behind every order already queued at the new price.
C14_RepriceForfeitsPriority == [][C14_Step]_vars

\* a reprice took the old id away and its new id rests last in a level that
\* already held an order
C14_Witness ==
    /\ lastCall.op = "modify" /\ lastCall.ret
    /\ lastCall.id \notin DOMAIN index_
    /\ lastOrderId(Engine) \in DOMAIN index_
    /\ \E l \in AllLevels :
          /\ l.level.price = lastCall.price
          /\ PriceLevel_orderCount(l.level) >= 2
          /\ l.level.orders_[PriceLevel_orderCount(l.level)] = lastOrderId(Engine)

C18_Step ==
    /\ lastOrderId(Engine') >= lastOrderId(Engine)
    /\ DOMAIN index_' \ DOMAIN index_ \subseteq {lastOrderId(Engine) + 1}
    /\ (lastCall'.op = "submit" \/ Repriced) =>
          /\ lastOrderId(Engine') = lastOrderId(Engine) + 1
          /\ \A k \in DOMAIN trades' : trades'[k].takerOrderId = lastOrderId(Engine')
          /\ lastOrderId(Engine') \notin DOMAIN index_
    /\ lastCall'.op = "submit" => lastCall'.id = lastOrderId(Engine')
    /\ ~(lastCall'.op = "submit" \/ Repriced) =>
          lastOrderId(Engine') = lastOrderId(Engine)

\* C18: no id has been handed out at the start, so the first is 1; every
\* submitOrder, the one inside a reprice included, hands out lastOrderId + 1,
\* an id never seen before; lastOrderId never decreases and stays as it is
\* across cancelOrder, same-price modifyOrder and failed calls.
C18_IdAllocation == lastOrderId(Engine) = 0 /\ [][C18_Step]_vars

\* every id of the run has been handed out, the last by a reprice, and an
\* earlier one is gone
C18_Witness ==
    /\ lastCall.op = "modify" /\ lastCall.ret
    /\ lastCall.id \notin DOMAIN index_
    /\ lastOrderId(Engine) = MaxOrders
    /\ DeadIds # {}

\* C17: submitOrder with a price that is not positive or with quantity zero
\* is refused with an error and changes neither the id counter nor the book.
C17_InvalidArgumentRejected ==
    \A side \in Sides : \A p \in 0..MaxPrice : \A q \in Quantities :
        (p <= 0 \/ q = 0) =>
            LET r == submitOrder(Engine, side, p, q)
            IN  /\ r.err # "none"
                /\ lastOrderId(r.e) = lastOrderId(Engine)
                /\ r.e.book_ = Book

\* the value of a modelled double is the integer n
IsInteger(x, n) == x.num = n * x.den

RowCents(row) == row.price.num

\* the rows list `levels` prices of m, or all of them when there are fewer,
\* none twice, each with the quantity resting at it
ListsLevels(rows, m, levels) ==
    /\ Len(rows) = (IF levels <= Cardinality(DOMAIN m) THEN levels
                    ELSE Cardinality(DOMAIN m))
    /\ \A k \in DOMAIN rows :
          /\ rows[k].price.den = CentsPerUnit
          /\ RowCents(rows[k]) \in DOMAIN m
          /\ rows[k].qty = SumQty(m[RowCents(rows[k])].orders_, storage_)
    /\ \A j, k \in DOMAIN rows : j # k => RowCents(rows[j]) # RowCents(rows[k])

\* C20: the view of depth N lists the N highest bids and the N lowest asks,
\* or every level of a side that has fewer, each with its total quantity.
C20_BookViewDepth ==
    \A levels \in 0..MaxDepth :
        LET v == printBook(Book, levels)
            shownBids == {RowCents(v.bidLevels[k]) : k \in DOMAIN v.bidLevels}
            shownAsks == {RowCents(v.askLevels[k]) : k \in DOMAIN v.askLevels}
        IN  /\ ListsLevels(v.bidLevels, bids_, levels)
            /\ ListsLevels(v.askLevels, asks_, levels)
            /\ \A p \in shownBids : \A o \in DOMAIN bids_ \ shownBids : p > o
            /\ \A p \in shownAsks : \A o \in DOMAIN asks_ \ shownAsks : p < o

\* the call of the step was a submitOrder or a modifyOrder to another price:
\* the calls that run match()
Matched == lastCall'.op = "submit" \/ Repriced

C21_Step ==
    Matched =>
        LET side == TakerSide
            limit == lastCall'.price
            qty == lastCall'.qty
            new == lastOrderId(Engine')
        IN  /\ \A k \in DOMAIN trades' : WithinLimit(side, limit, trades'[k].price)
            /\ (\A p \in DOMAIN OppositeMap(side) : ~WithinLimit(side, limit, p)) =>
                  /\ trades' = <<>>
                  /\ OrderBook_hasOrder(Book', new)
                  /\ storage_'[new] = Order(new, side, limit, qty)
                  /\ new \in Elems(QueueIn(Book', side, limit))

\* C21: no trade of a buy taker is priced above its limit and no trade of a
\* sell taker below it; a taker that no opposite level crosses trades
\* nothing and rests whole.
C21_TakerLimitProtection == [][C21_Step]_vars

\* ---------------------------------------------------------------- the loops of match()
\* st is a state inside match(): [storage_, book_, trades]; taker is the id
\* of the order being matched.

\* the side map the taker of st is matched against
FacingMap(st, taker) ==
    IF st.storage_[taker].side = "Buy" THEN st.book_.asks_ ELSE st.book_.bids_

\* the price of the best level facing the taker (the walk's `it`)
FacingBest(st, taker) ==
    IF st.storage_[taker].side = "Buy"
    THEN AsksBegin(st.book_.asks_) ELSE BidsBegin(st.book_.bids_)

\* the condition of match()'s while loop
WalkGuard(st, taker) ==
    st.storage_[taker].quantity > 0 /\ DOMAIN FacingMap(st, taker) # {}

\* the walk enters its loop body and does not break at the crossing test
WalkCrosses(st, taker) ==
    /\ WalkGuard(st, taker)
    /\ Crosses(st.storage_[taker].side, st.storage_[taker].price, FacingBest(st, taker))

\* the condition of fillLevel()'s while loop
FillGuard(st, taker, mside, p) ==
    st.storage_[taker].quantity > 0 /\ ~PriceLevel_empty(LevelOf(st.book_, mside, p))

\* what is left to do: the taker's quantity, the orders and the levels it faces
Variant(st, taker) ==
    st.storage_[taker].quantity
      + Cardinality(QueuedIn(FacingMap(st, taker)))
      + Cardinality(DOMAIN FacingMap(st, taker))

\* st1 is st after one iteration of the fill loop: the taker is exhausted or
\* the front maker is out of the level, and less is left to do
FillIterationOK(st, st1, taker, mside, p) ==
    LET before == LevelOf(st.book_, mside, p)
        after == LevelOf(st1.book_, mside, p)
    IN  /\ \/ st1.storage_[taker].quantity = 0
           \/ /\ PriceLevel_getFront(before) \notin Elems(after.orders_)
              /\ PriceLevel_orderCount(after) = PriceLevel_orderCount(before) - 1
        /\ Variant(st1, taker) < Variant(st, taker)

\* every iteration of the fill loop started in st
RECURSIVE FillLoopOK(_, _, _, _)
FillLoopOK(st, taker, mside, p) ==
    IF FillGuard(st, taker, mside, p)
    THEN LET st1 == FillOne(st, taker, mside, p)
         IN  /\ FillIterationOK(st, st1, taker, mside, p)
             /\ FillLoopOK(st1, taker, mside, p)
    ELSE TRUE

\* st1 is st after an iteration of the walk that passed the crossing test
\* at level p: the level is erased, or (when exhaustAllowed) the taker has
\* nothing left to fill, and less is left to do
WalkIterationOK(st, st1, taker, p, exhaustAllowed) ==
    /\ \/ p \notin DOMAIN FacingMap(st1, taker)
       \/ exhaustAllowed /\ st1.storage_[taker].quantity = 0
    /\ Variant(st1, taker) < Variant(st, taker)

\* every iteration of the walk started in st, and of its fill loops; the
\* walk ends in a state with the trade list ts
RECURSIVE WalkLoopOK(_, _, _, _)
WalkLoopOK(st, taker, exhaustAllowed, ts) ==
    IF WalkCrosses(st, taker)
    THEN LET mside == OppositeSide(st.storage_[taker].side)
             p == FacingBest(st, taker)
             st1 == WalkOne(st, taker, mside, p)
         IN  /\ FillLoopOK(st, taker, mside, p)
             /\ WalkIterationOK(st, st1, taker, p, exhaustAllowed)
             /\ WalkLoopOK(st1, taker, exhaustAllowed, ts)
    ELSE st.trades = ts

\* the state match() starts from in the call of the step
MatchStart ==
    LET e == IF lastCall'.op = "submit" THEN Engine
             ELSE cancelOrder(Engine, lastCall'.id).e
    IN  NewTaker(e, TakerSide, lastCall'.price, lastCall'.qty)

C22_Step_walkErases ==
    Matched =>
        WalkLoopOK(MatchStart, nextOrderId_, FALSE, trades')

\* C22 as stated: every call that matches completes; each iteration of the
\* fill loop exhausts the taker or removes the front maker, and each
\* iteration of the level walk stops at a non-crossing level or erases the
\* best opposite level.
C22_WalkErasesLevel == [][C22_Step_walkErases]_vars

C22_Step ==
    Matched =>
        /\ WalkLoopOK(MatchStart, nextOrderId_, TRUE, trades')
        /\ Len(trades') <= Cardinality(QueuedIn(OppositeMap(TakerSide)))

\* C22, amended: every call that matches completes; each iteration of the
\* fill loop exhausts the taker or removes the front maker, and each
\* iteration of the level walk stops at a non-crossing level, erases the
\* best opposite level, or exhausts the taker; every iteration lowers a
\* non-negative measure, and a call makes no more fills than there are
\* orders facing it.
C22_Termination == [][C22_Step]_vars

\* a submit traded at two levels and was used up inside the second, whose
\* maker still rests
C22_Witness ==
    /\ lastCall.op = "submit"
    /\ lastCall.id \notin DOMAIN index_
    /\ Len(trades) = 2
    /\ trades[1].price # trades[2].price
    /\ trades[2].makerOrderId \in DOMAIN index_
    /\ storage_[trades[2].makerOrderId].quantity > 0

C23_Step ==
    \A k \in DOMAIN trades' :
        LET m == trades'[k].makerOrderId
            t == trades'[k].takerOrderId
        IN  /\ Matched
            /\ t = lastOrderId(Engine')
            /\ t \notin DOMAIN index_
            /\ m \in DOMAIN index_
            /\ storage_[m].side = OppositeSide(TakerSide)
            /\ m < t
            /\ Repriced => m # lastCall'.id

\* C23: in every trade the maker rested on the side opposite the taker and
\* its id is below the taker's; a reprice never trades with the order it
\* replaces.
C23_NoSelfTrade == [][C23_Step]_vars

\* a reprice traded, and the order it replaced is gone
C23_Witness ==
    /\ lastCall.op = "modify" /\ lastCall.ret
    /\ lastCall.id \notin DOMAIN index_
    /\ trades # <<>>
    /\ \E k \in DOMAIN trades : trades[k].quantity > 0

====
